---- MODULE Spec2Model ----
(***************************************************************************)
(* Transcript editing of the recording page                                *)
(* (src/app/(protected)/recording/[id]/page.tsx) together with the Dexie   *)
(* storage layer it calls (src/lib/storage/index.ts).                      *)
(*                                                                         *)
(* Texts are sequences of one-character strings.  Times are exact          *)
(* rationals [n, d] in lowest terms (the code computes them in IEEE        *)
(* doubles; rounding is not modelled).  Every React handler is split at    *)
(* its awaits: the part before the await is one action, the continuation   *)
(* another, and the continuation works on the values its closure captured  *)
(* when the handler was invoked.  The segment fields recordingId,          *)
(* speakerLabel and confidence are left out.  Indices are 1-based here and *)
(* 0-based in the code.                                                    *)
(*                                                                         *)
(* Modelled: text selection, the Edit Phrase and Change Speaker modals,    *)
(* rewrite, reassignment (with and without a new speaker) and undo.  Not   *)
(* modelled: the inline whole-segment editor (saveSegmentEdit), the        *)
(* sidebar's speaker add and rename, search, playback and export.          *)
(*                                                                         *)
(* A second, independent part models the demo usage limits of the upload   *)
(* page and of the transcription route (src/lib/usage,                     *)
(* src/app/api/transcribe/route.ts): SpecUsage.  Its variables stay fixed  *)
(* in the specifications of the recording page, and the recording page's   *)
(* stay fixed in SpecUsage.                                                *)
(***************************************************************************)
EXTENDS Integers, Sequences, FiniteSets, TLC

\* ------------------------------------------------------------------ bounds

\* Commits (Save clicks that pass the guards) allowed in a run of Spec.
MaxOps == 1
\* Undo clicks allowed in a run of Spec.
MaxUndos == 2
\* User gestures allowed while a handler is suspended at an await, in the runs
\* where storage does not fail.
MaxBusyGestures == 1
\* Storage calls that may fail, in the runs where the user waits for every
\* handler to finish before the next gesture.
MaxFailures == 1
\* Rewrites replayed to build the long history SpecHist starts from.
PreOps == 9
\* Commits allowed on top of the replayed history in a run of SpecHist.
HistOps == 2

\* Upload clicks allowed in a run of SpecUsage.
MaxUploads == 3
\* Steps of the wall clock allowed in a run of SpecUsage.
MaxElapses == 3
SplitOps == 2
AbuttingOps == 2
MaxSpeakers == 3

\* ------------------------------------------------------------------ times

RECURSIVE GCD(_, _)
GCD(a, b) == IF b = 0 THEN a ELSE GCD(b, a % b)

Abs(x) == IF x < 0 THEN -x ELSE x

\* A rational in lowest terms with a positive denominator.
Rat(n, d) ==
  LET g == GCD(Abs(n), Abs(d))
      s == IF d < 0 THEN -1 ELSE 1
  IN [n |-> (s * n) \div g, d |-> (s * d) \div g]

RInt(k) == [n |-> k, d |-> 1]
RAdd(x, y) == Rat(x.n * y.d + y.n * x.d, x.d * y.d)
RSub(x, y) == Rat(x.n * y.d - y.n * x.d, x.d * y.d)
RLess(x, y) == x.n * y.d < y.n * x.d
RLeq(x, y) == x.n * y.d <= y.n * x.d

\* (offset / totalLength) * segmentDuration
RScale(offset, totalLength, dur) == Rat(offset * dur.n, totalLength * dur.d)

\* ------------------------------------------------------------------ texts

IsSpace(c) == c = " "

RECURSIVE TrimStart(_)
TrimStart(t) ==
  IF t = <<>> THEN <<>>
  ELSE IF IsSpace(Head(t)) THEN TrimStart(Tail(t)) ELSE t

RECURSIVE TrimEnd(_)
TrimEnd(t) ==
  IF t = <<>> THEN <<>>
  ELSE IF IsSpace(t[Len(t)]) THEN TrimEnd(SubSeq(t, 1, Len(t) - 1)) ELSE t

\* String.prototype.trim
Trim(t) == TrimEnd(TrimStart(t))

\* String.prototype.slice(from, to) for 0 <= from, to (0-based, end exclusive,
\* both clamped to the length)
Slice(t, from, to) ==
  LET f == IF from > Len(t) THEN Len(t) ELSE from
      e == IF to > Len(t) THEN Len(t) ELSE to
  IN IF f >= e THEN <<>> ELSE SubSeq(t, f + 1, e)

\* String.prototype.slice(from)
SliceFrom(t, from) == Slice(t, from, Len(t))

\* An indexOf that finds the last occurrence.
LastIndexOf(t, sub) ==
  LET hits == {k \in 0..(Len(t) - Len(sub)) : Slice(t, k, k + Len(sub)) = sub}
  IN IF hits = {} THEN -1 ELSE CHOOSE k \in hits : \A j \in hits : k >= j

\* String.prototype.indexOf: 0-based index of the first occurrence, -1 if none
IndexOf(t, sub) ==
  LET hits == {k \in 0..(Len(t) - Len(sub)) : Slice(t, k, k + Len(sub)) = sub}
  IN IF hits = {} THEN -1 ELSE CHOOSE k \in hits : \A j \in hits : k <= j

\* ------------------------------------------------------------------ segment lists

\* { ...seg, ...updates }
Spread(seg, updates) ==
  LET Pick(f) == IF f \in DOMAIN updates THEN updates[f] ELSE seg[f]
  IN [id |-> Pick("id"), speakerId |-> Pick("speakerId"), text |-> Pick("text"),
      startTime |-> Pick("startTime"), endTime |-> Pick("endTime"),
      isEdited |-> Pick("isEdited")]

\* newSegments.map((seg) => seg.id === id ? Upd(seg) : seg)
MapById(segs, id, updates) ==
  [i \in 1..Len(segs) |->
     IF segs[i].id = id THEN Spread(segs[i], updates) ELSE segs[i]]

\* newSegments.filter((seg) => seg.id !== id)
FilterOutId(segs, id) == SelectSeq(segs, LAMBDA seg : seg.id # id)

\* newSegments.findIndex((seg) => seg.id === id), 1-based; every caller looks up
\* the identifier of an element of the list
FindIndex(segs, id) ==
  CHOOSE i \in 1..Len(segs) :
    segs[i].id = id /\ \A j \in 1..(i - 1) : segs[j].id # id

\* newSegments.splice(idx, deleteCount, ...items) with a 1-based idx
Splice(segs, idx, deleteCount, items) ==
  SubSeq(segs, 1, idx - 1) \o items \o SubSeq(segs, idx + deleteCount, Len(segs))

\* Insert seg after the last element whose startTime is not greater.
RECURSIVE InsertByStart(_, _)
InsertByStart(sorted, seg) ==
  IF sorted = <<>> THEN <<seg>>
  ELSE IF RLess(seg.startTime, sorted[Len(sorted)].startTime)
       THEN InsertByStart(SubSeq(sorted, 1, Len(sorted) - 1), seg)
              \o <<sorted[Len(sorted)]>>
       ELSE sorted \o <<seg>>

RECURSIVE SortFrom(_, _)
SortFrom(done, rest) ==
  IF rest = <<>> THEN done
  ELSE SortFrom(InsertByStart(done, Head(rest)), Tail(rest))

\* No sort at all.
Unsorted(segs) == segs

\* segments.sort((a, b) => a.startTime - b.startTime): ascending and stable
SortByStartTime(segs) == SortFrom(<<>>, segs)

\* An interpolation that never leaves the segment's start.
StartTimeOnly(segment, offset, totalLength) == segment.startTime

\* start + (offset / totalLength) * segmentDuration
InterpolateTime(segment, offset, totalLength) ==
  RAdd(segment.startTime,
       RScale(offset, totalLength, RSub(segment.endTime, segment.startTime)))

\* Identifiers are pairs <<n, tag>>: a loaded segment or speaker has n = 0, and
\* `seg-${Date.now()}-new` read at clock value t is <<t, "new">>.
FreshId(t, tag) == <<t, tag>>

\* ------------------------------------------------------------------ reassignment

\* A join that forgets the space.
JoinWithoutSpace(a, b) == a \o b

\* a + ' ' + b
JoinWithSpace(a, b) == a \o <<" ">> \o b

\* A filter that removes nothing.
FilterOutNone(segs, id) == segs

\* newSegments.filter((seg) => seg.id !== segment.id) where a merge swallowed
\* the whole segment
RemoveSegment(segs, id) == FilterOutId(segs, id)

\* An after-part that keeps its whitespace.
AfterTextUntrimmed(d) == SliceFrom(d.originalText, d.endOffset)

\* The three trimmed parts of the descriptor's original text.
BeforeText(d) == Trim(Slice(d.originalText, 0, d.startOffset))
SelectedText(d) == Trim(Slice(d.originalText, d.startOffset, d.endOffset))
AfterText(d) == Trim(SliceFrom(d.originalText, d.endOffset))

\* A relabelling that leaves isEdited as it was.
RelabelledOnly(newSpeakerId) == [speakerId |-> newSpeakerId]

\* The fields of { ...seg, speakerId: newSpeakerId, isEdited: true }
Relabelled(newSpeakerId) == [speakerId |-> newSpeakerId, isEdited |-> TRUE]

\* A dispatch that never takes the first case.
NeverAtBeginning(beforeText, selectedText) == FALSE

\* if (!beforeText && selectedText): case 1 is tried before case 2
SelectionAtBeginning(beforeText, selectedText) ==
  beforeText = <<>> /\ selectedText # <<>>

\* The list saveSpeakerChange builds from the list `segs` of its closure, before
\* the sort.  t1 and t2 are the values of its Date.now() reads.
SplitMergeSegments(segs, d, newSpeakerId, t1, t2) ==
  LET segmentIndex == d.segmentIndex
      segment == segs[segmentIndex]
      beforeText == BeforeText(d)
      selectedText == SelectedText(d)
      afterText == AfterText(d)
      hasPrev == segmentIndex > 1
      hasNext == segmentIndex < Len(segs)
      prevSegment == segs[segmentIndex - 1]
      nextSegment == segs[segmentIndex + 1]
      totalLength == Len(d.originalText)
      beforeEndTime == InterpolateTime(segment, d.startOffset, totalLength)
      selectedEndTime == InterpolateTime(segment, d.endOffset, totalLength)
      Relabel == Relabelled(newSpeakerId)
      KeepAfter ==
        [text |-> afterText, startTime |-> selectedEndTime, isEdited |-> TRUE]
      KeepBefore ==
        [text |-> beforeText, endTime |-> beforeEndTime, isEdited |-> TRUE]
      AppendToPrev ==
        [text |-> JoinWithSpace(prevSegment.text, selectedText),
         endTime |-> selectedEndTime, isEdited |-> TRUE]
      PrependToNext ==
        [text |-> JoinWithSpace(selectedText, nextSegment.text),
         startTime |-> beforeEndTime, isEdited |-> TRUE]
  IN
  IF SelectionAtBeginning(beforeText, selectedText) THEN
    \* Case 1: selection at the beginning
    IF hasPrev /\ prevSegment.speakerId = newSpeakerId THEN
      LET merged == MapById(segs, prevSegment.id, AppendToPrev)
      IN IF afterText # <<>>
         THEN MapById(merged, segment.id, KeepAfter)
         ELSE RemoveSegment(merged, segment.id)
    ELSE IF afterText # <<>> THEN
      LET newSeg == [id |-> FreshId(t1, "new"), speakerId |-> newSpeakerId,
                     text |-> selectedText, startTime |-> segment.startTime,
                     endTime |-> selectedEndTime, isEdited |-> TRUE]
          shrunk == MapById(segs, segment.id, KeepAfter)
      IN Splice(shrunk, FindIndex(shrunk, segment.id), 0, <<newSeg>>)
    ELSE MapById(segs, segment.id, Relabel)
  ELSE IF afterText = <<>> /\ selectedText # <<>> THEN
    \* Case 2: selection at the end
    IF hasNext /\ nextSegment.speakerId = newSpeakerId THEN
      LET merged == MapById(segs, nextSegment.id, PrependToNext)
      IN IF beforeText # <<>>
         THEN MapById(merged, segment.id, KeepBefore)
         ELSE RemoveSegment(merged, segment.id)
    ELSE IF beforeText # <<>> THEN
      LET newSeg == [id |-> FreshId(t1, "new"), speakerId |-> newSpeakerId,
                     text |-> selectedText, startTime |-> beforeEndTime,
                     endTime |-> segment.endTime, isEdited |-> TRUE]
          shrunk == MapById(segs, segment.id, KeepBefore)
      IN Splice(shrunk, FindIndex(shrunk, segment.id) + 1, 0, <<newSeg>>)
    ELSE MapById(segs, segment.id, Relabel)
  ELSE IF beforeText # <<>> /\ afterText # <<>> /\ selectedText # <<>> THEN
    \* Case 3: selection in the middle
    LET beforeSeg == [segment EXCEPT !.text = beforeText,
                        !.endTime = beforeEndTime, !.isEdited = TRUE]
        selectedSeg == [id |-> FreshId(t1, "selected"), speakerId |-> newSpeakerId,
                        text |-> selectedText, startTime |-> beforeEndTime,
                        endTime |-> selectedEndTime, isEdited |-> TRUE]
        afterSeg == [id |-> FreshId(t2, "after"), speakerId |-> segment.speakerId,
                     text |-> afterText, startTime |-> selectedEndTime,
                     endTime |-> segment.endTime, isEdited |-> TRUE]
    IN Splice(segs, FindIndex(segs, segment.id), 1,
              <<beforeSeg, selectedSeg, afterSeg>>)
  ELSE segs

\* newSegments after `newSegments.sort(...)`: what is written and displayed
ReassignedSegments(segs, d, newSpeakerId, t1, t2) ==
  SortByStartTime(SplitMergeSegments(segs, d, newSpeakerId, t1, t2))

\* A rewrite that loses the text after the span.
NewTextWithoutRest(d) == Slice(d.originalText, 0, d.startOffset) \o d.newText

\* before + newText + after of saveEditedPhrase
NewFullText(d) ==
  Slice(d.originalText, 0, d.startOffset) \o d.newText
    \o SliceFrom(d.originalText, d.endOffset)

\* prev.map((seg) => seg.id === id ? {...seg, text, isEdited: true} : seg)
RewrittenSegments(prev, id, newFullText) ==
  MapById(prev, id, [text |-> newFullText, isEdited |-> TRUE])

\* A push that keeps ten earlier entries: [...prev.slice(-10), entry]
PushKeepingTen(prev, entry) ==
  (IF Len(prev) > 10 THEN SubSeq(prev, Len(prev) - 9, Len(prev)) ELSE prev)
    \o <<entry>>

\* [...prev.slice(-9), entry]
PushToEditHistory(prev, entry) ==
  (IF Len(prev) > 9 THEN SubSeq(prev, Len(prev) - 8, Len(prev)) ELSE prev)
    \o <<entry>>

\* A pop at the wrong end: prev.slice(1)
DropFirst(prev) == IF prev = <<>> THEN <<>> ELSE SubSeq(prev, 2, Len(prev))

\* prev.slice(0, -1)
DropLast(prev) == IF prev = <<>> THEN <<>> ELSE SubSeq(prev, 1, Len(prev) - 1)

\* ------------------------------------------------------------------ speakers

\* String(n).padStart(2, "0") for 0 < n < 100
Pad2(n) ==
  LET digit(k) == <<"0", "1", "2", "3", "4", "5", "6", "7", "8", "9">>[k + 1]
  IN <<digit(n \div 10), digit(n % 10)>>

\* getSpeakerLabel(index) of the legal vocabulary: "Speaker 01", "Speaker 02", ...
DefaultSpeakerLabel(index) ==
  <<"S", "p", "e", "a", "k", "e", "r", " ">> \o Pad2(index + 1)

\* ------------------------------------------------------------------ storage

\* db.transcriptSegments.update(id, {text, isEdited: true}); no row, no change
DbUpdateSegment(rows, id, newFullText) ==
  {IF r.id = id THEN [r EXCEPT !.text = newFullText, !.isEdited = TRUE] ELSE r :
     r \in rows}

\* db.transcriptSegments.bulkPut(segs) into an empty table: the primary key is
\* the id, so of two elements with one id the later one stays
DbBulkPut(segs) ==
  {segs[i] : i \in {k \in 1..Len(segs) :
                      \A j \in (k + 1)..Len(segs) : segs[j].id # segs[k].id}}

\* replaceTranscriptSegments: delete the recording's rows, then bulkPut.  The two
\* statements are separate transactions; either may throw, and the function then
\* returns false.
ReplaceOutcomes == {"ok", "deleteFailed", "putFailed"}

DbReplaceSegments(rows, segs, outcome) ==
  IF outcome = "ok" THEN DbBulkPut(segs)
  ELSE IF outcome = "putFailed" THEN {}
  ELSE rows

\* ------------------------------------------------------------------ demo usage limits

\* DEFAULT_SESSION_HOURS and DEFAULT_PRICE_LIMIT_USD of lib/usage/config.ts
DEFAULT_SESSION_HOURS == 24
DEFAULT_PRICE_LIMIT_USD == 5

\* 60 * 60 * 1000
MsPerHour == 3600000

\* VOICE_API_PRICE_PER_MINUTE / 60 with VOICE_API_PRICE_PER_MINUTE = 0.30
VOICE_API_PRICE_PER_SECOND == Rat(3, 600)

IsDigit(c) == c \in {"0", "1", "2", "3", "4", "5", "6", "7", "8", "9"}

DigitValue(c) ==
  CHOOSE k \in 0..9 : <<"0", "1", "2", "3", "4", "5", "6", "7", "8", "9">>[k + 1] = c

\* The value of the longest prefix of t made of digits, acc being the value of
\* the digits read so far; none (<<>>) when t does not start with a digit.
RECURSIVE ParseDigits(_, _, _)
ParseDigits(t, acc, any) ==
  IF t # <<>> /\ IsDigit(Head(t))
  THEN ParseDigits(Tail(t), 10 * acc + DigitValue(Head(t)), TRUE)
  ELSE IF any THEN <<acc>> ELSE <<>>

\* parseFloat on texts made of digits and letters: the number the leading
\* digits spell, NaN (<<>> here) when there are none
ParseFloat(t) == ParseDigits(t, 0, FALSE)

\* parseFloat(process.env.A || process.env.B || String(default)), NaN replaced
\* by default.  A variable is <<>> when unset and <<text>> when set; an empty
\* text is falsy like an unset variable.
FromEnv(a, b, default) ==
  LET Set(v) == v # <<>> /\ v[1] # <<>>
      parsed == IF Set(a) THEN ParseFloat(a[1])
                ELSE IF Set(b) THEN ParseFloat(b[1])
                ELSE <<default>>
  IN IF parsed = <<>> THEN default ELSE parsed[1]

\* getUsageLimits.  The route reads all four variables; code bundled for the
\* browser sees the NEXT_PUBLIC_ ones only.
GetUsageLimits(e, inBrowser) ==
  [sessionHours |->
     FromEnv(e.publicHours, IF inBrowser THEN <<>> ELSE e.serverHours,
             DEFAULT_SESSION_HOURS),
   priceLimitUsd |->
     FromEnv(e.publicPrice, IF inBrowser THEN <<>> ELSE e.serverPrice,
             DEFAULT_PRICE_LIMIT_USD)]

\* getSessionDurationMs
GetSessionDurationMs(sessionHours) == sessionHours * MsPerHour

\* A check that lets a session through that is exactly at a limit.
CheckDemoLimitsStrict(usage, limits, t) ==
  IF usage = <<>> THEN [allowed |-> TRUE, reason |-> "none"]
  ELSE IF t > usage[1].sessionStartedAt + GetSessionDurationMs(limits.sessionHours)
  THEN [allowed |-> FALSE, reason |-> "time_exceeded"]
  ELSE IF RLess(RInt(limits.priceLimitUsd), usage[1].estimatedCostUsd)
  THEN [allowed |-> FALSE, reason |-> "cost_exceeded"]
  ELSE [allowed |-> TRUE, reason |-> "none"]

\* checkDemoLimits of the route: usage is the parsed X-Demo-Usage header, none
\* (<<>>) when the header is missing; t is the route's Date.now()
CheckDemoLimits(usage, limits, t) ==
  IF usage = <<>> THEN [allowed |-> TRUE, reason |-> "none"]
  ELSE IF t >= usage[1].sessionStartedAt + GetSessionDurationMs(limits.sessionHours)
  THEN [allowed |-> FALSE, reason |-> "time_exceeded"]
  ELSE IF RLeq(RInt(limits.priceLimitUsd), usage[1].estimatedCostUsd)
  THEN [allowed |-> FALSE, reason |-> "cost_exceeded"]
  ELSE [allowed |-> TRUE, reason |-> "none"]

\* checkUsageLimits of the browser, less the percentages and the remainders
\* it reports
CheckUsageLimits(u, limits, t) ==
  LET sessionEndTime == u.sessionStartedAt + GetSessionDurationMs(limits.sessionHours)
      timeRemainingMs == IF sessionEndTime - t > 0 THEN sessionEndTime - t ELSE 0
      left == RSub(RInt(limits.priceLimitUsd), u.estimatedCostUsd)
      costRemainingUsd == IF RLess(RInt(0), left) THEN left ELSE RInt(0)
  IN IF timeRemainingMs <= 0 THEN [isAllowed |-> FALSE, reason |-> "time_exceeded"]
     ELSE IF RLeq(costRemainingUsd, RInt(0))
     THEN [isAllowed |-> FALSE, reason |-> "cost_exceeded"]
     ELSE [isAllowed |-> TRUE, reason |-> "none"]

\* audioDurationSeconds * VOICE_API_PRICE_PER_SECOND of the route
TranscriptionCost(audioDurationSeconds) ==
  Rat(audioDurationSeconds * VOICE_API_PRICE_PER_SECOND.n,
      VOICE_API_PRICE_PER_SECOND.d)

\* addTranscriptionUsage
AddTranscriptionUsage(u, audioSeconds, costUsd) ==
  [u EXCEPT !.totalAudioSeconds = u.totalAudioSeconds + audioSeconds,
            !.estimatedCostUsd = RAdd(u.estimatedCostUsd, costUsd),
            !.transcriptionCount = u.transcriptionCount + 1]

\* initializeUsage at wall-clock time t (the sessionId is left out)
InitializeUsage(t) ==
  [sessionStartedAt |-> t, totalAudioSeconds |-> 0, estimatedCostUsd |-> RInt(0),
   transcriptionCount |-> 0]

NoEnv ==
  [publicHours |-> <<>>, serverHours |-> <<>>, publicPrice |-> <<>>,
   serverPrice |-> <<>>]

\* Deployments: nothing set; a price limit of $3 known to the server only; a
\* session of 12 hours known to both sides; a session length that is no number.
Envs ==
  { NoEnv,
    [NoEnv EXCEPT !.serverPrice = << <<"3">> >>],
    [NoEnv EXCEPT !.publicHours = << <<"1", "2">> >>],
    [NoEnv EXCEPT !.serverHours = << <<"x">> >>] }

\* Durations in seconds of the audio files uploaded: $2 and $3 of transcription.
AudioSeconds == {400, 600}

\* A step of the wall clock: half the default session.
ElapseMs == GetSessionDurationMs(DEFAULT_SESSION_HOURS) \div 2

NoRequest ==
  [status |-> 0, reason |-> "none", header |-> <<>>, at |-> 0, called |-> FALSE]

\* ------------------------------------------------------------------ state

VARIABLES
  segments,         \* useState<TranscriptSegment[]>
  speakers,         \* useState<Speaker[]>
  editHistory,      \* useState<EditHistoryEntry[]>
  textSelection,    \* useState<TextSelection | null>: <<>> or <<selection>>
  editPhraseState,  \* useState<EditPhraseState | null>: <<>> or <<descriptor>>
  editSpeakerState, \* useState<EditSpeakerState | null>: <<>> or <<descriptor>>
  dbSegments,       \* rows of db.transcriptSegments of this recording
  dbSpeakers,       \* rows of db.speakers of this recording
  pending,          \* handlers suspended at an await, with what they captured
  clock,            \* the latest value Date.now() returned, 0 before the first read
  opsLeft,          \* commits still allowed (bound of the model)
  undosLeft,        \* undo clicks still allowed (bound of the model)
  failuresLeft,     \* storage failures still allowed (bound of the model)
  busyLeft,         \* gestures during an await still allowed (bound of the model)
  nWrites,          \* history: storage write calls made so far
  last,             \* history: the commit request or undo that has just finished
  run,              \* history: the commits and undos since the history was empty
  demoUsage,        \* localStorage 'ccc:demoUsage' and the provider's usage state
  checkResult,      \* the provider's checkResult state (as of its last refresh)
  env,              \* the deployment's environment variables for the limits
  now,              \* wall clock in ms since the session started
  lastRequest,      \* history: the upload click that has just been handled
  uploadsLeft,      \* upload clicks still allowed (bound of the model)
  elapsesLeft       \* clock steps still allowed (bound of the model)

\* The state of the recording page and the state of the usage limits.
page == <<segments, speakers, editHistory, textSelection, editPhraseState,
          editSpeakerState, dbSegments, dbSpeakers, pending, clock, opsLeft,
          undosLeft, failuresLeft, busyLeft, nWrites, last, run>>
demo == <<demoUsage, checkResult, env, now, lastRequest, uploadsLeft, elapsesLeft>>

vars == <<page, demo>>

ui == <<textSelection, editPhraseState, editSpeakerState>>
db == <<dbSegments, dbSpeakers>>
budget == <<opsLeft, undosLeft, failuresLeft>>

NoId == <<0, "">>

Seg(id, speakerId, text, startTime, endTime) ==
  [id |-> id, speakerId |-> speakerId, text |-> text,
   startTime |-> RInt(startTime), endTime |-> RInt(endTime), isEdited |-> FALSE]

SpeakerA == [id |-> <<0, "A">>, label |-> DefaultSpeakerLabel(0)]
SpeakerB == [id |-> <<0, "B">>, label |-> DefaultSpeakerLabel(1)]

\* Two loaded transcripts, each sorted by startTime as getTranscriptSegments
\* returns it: one with abutting segments, one whose segments overlap in time.
LoadedTranscripts ==
  { << Seg(<<0, "s1">>, SpeakerA.id, <<"a", "b", " ", "a">>, 0, 4),
       Seg(<<0, "s2">>, SpeakerB.id, <<"b">>, 4, 6) >>,
    << Seg(<<0, "s1">>, SpeakerA.id, <<"a", "b">>, 0, 4),
       Seg(<<0, "s2">>, SpeakerB.id, <<"a", " ", "b">>, 1, 6) >> }

\* Replacement texts typed into the Edit Phrase modal.
NewTexts == {<<>>, <<"b">>}

\* Names typed into the new-speaker input: the input cleared, and a blank.
NewSpeakerNames == {<<>>, <<" ">>}

\* The descriptor both modals hold; EditPhraseState uses newText,
\* EditSpeakerState uses newSpeakerId, isCreatingNewSpeaker and newSpeakerName
\* (undefined in the code until set: FALSE and the empty string here).
Descriptor(sel, segment, newText, newSpeakerId) ==
  [segmentId |-> sel.segmentId, segmentIndex |-> sel.segmentIndex,
   originalText |-> segment.text, selectedText |-> sel.text,
   startOffset |-> sel.startOffset, endOffset |-> sel.endOffset,
   newText |-> newText, newSpeakerId |-> newSpeakerId,
   isCreatingNewSpeaker |-> FALSE, newSpeakerName |-> <<>>]

NoLast ==
  [op |-> "none", d |-> <<>>, target |-> NoId, creating |-> FALSE,
   addOk |-> TRUE, outcome |-> "ok", pre |-> <<>>, preSpk |-> <<>>,
   preHist |-> <<>>, preWrites |-> 0, preDb |-> {}, prev |-> <<>>,
   prevDb |-> {}, post |-> <<>>, postSpk |-> <<>>, postHist |-> <<>>,
   postWrites |-> 0, postDb |-> {}, postModal |-> <<>>, t1 |-> 0, t2 |-> 0,
   raw |-> <<>>, el |-> 0, sel |-> <<>>]

NoRun == [phase |-> "idle", log |-> <<>>, undone |-> 0]

NoModal == editPhraseState = <<>> /\ editSpeakerState = <<>>

\* The usage limits at rest: a session that has just started, nothing to upload.
DemoAtRest ==
  /\ demoUsage = <<InitializeUsage(0)>>
  /\ checkResult = [isAllowed |-> TRUE, reason |-> "none"]
  /\ env = NoEnv
  /\ now = 0
  /\ lastRequest = NoRequest
  /\ uploadsLeft = 0
  /\ elapsesLeft = 0

InitWith(segs) ==
  /\ segments = segs
  /\ speakers = <<SpeakerA, SpeakerB>>
  /\ editHistory = <<>>
  /\ textSelection = <<>>
  /\ editPhraseState = <<>>
  /\ editSpeakerState = <<>>
  /\ dbSegments = {segs[i] : i \in 1..Len(segs)}
  /\ dbSpeakers = {SpeakerA, SpeakerB}
  /\ pending = <<>>
  /\ clock = 0
  /\ nWrites = 0
  /\ last = NoLast
  /\ run = NoRun

Init ==
  /\ DemoAtRest
  /\ \E segs \in LoadedTranscripts : InitWith(segs)
  /\ opsLeft = MaxOps
  /\ undosLeft = MaxUndos
  /\ \/ failuresLeft = MaxFailures /\ busyLeft = 0
     \/ failuresLeft = 0 /\ busyLeft = MaxBusyGestures

\* A user gesture: while a handler is suspended it uses up one of the gestures
\* the model allows during awaits.
Gesture ==
  /\ pending # <<>> => busyLeft > 0
  /\ busyLeft' = IF pending # <<>> THEN busyLeft - 1 ELSE busyLeft

\* ------------------------------------------------------------------ selection

\* String(n) for a natural number n
RECURSIVE Digits(_)
Digits(n) == IF n < 10 THEN <<Pad2(n)[2]>> ELSE Digits(n \div 10) \o <<Pad2(n % 10)[2]>>

\* formatTime(seconds) for a duration under a hundred hours
FormatTime(seconds) ==
  LET whole == seconds.n \div seconds.d
      hours == whole \div 3600
      mins == (whole % 3600) \div 60
      secs == whole % 60
  IN IF hours > 0
     THEN Digits(hours) \o <<":">> \o Pad2(mins) \o <<":">> \o Pad2(secs)
     ELSE Pad2(mins) \o <<":">> \o Pad2(secs)

\* What selection.toString() can give for a drag inside the row of segment el:
\* a part of its text, or the end of its timestamp and the beginning of its
\* text (the speaker button and the badges are left out); and for el = 0 a drag
\* from one row into the next, whose common ancestor is in no row.
Dragged(segs, el) ==
  IF el = 0
  THEN {segs[i].text \o <<" ">> \o segs[i + 1].text : i \in 1..(Len(segs) - 1)}
  ELSE LET stamp == FormatTime(segs[el].startTime)
           text == segs[el].text
       IN ({SubSeq(text, a, b) : a \in 1..Len(text), b \in 1..Len(text)} \ {<<>>})
          \cup {<<stamp[Len(stamp)], " ">> \o Slice(text, 0, b) : b \in 0..1}
          \cup {<<" ">> \o Slice(text, 0, b) : b \in 1..Len(text)}

\* handleMouseUp from the trimmed check on: the TextSelection for the raw
\* selected string `raw` inside the element of segment segmentIndex (0 when the
\* selection is inside no segment element), or none
ResolveSelection(segs, segmentIndex, raw) ==
  LET selectedText == Trim(raw)
      fullText == segs[segmentIndex].text
      startOffset == IndexOf(fullText, selectedText)
  IN IF selectedText = <<>> \/ segmentIndex < 1 \/ segmentIndex > Len(segs)
        \/ startOffset < 0
     THEN <<>>
     ELSE << [segmentId |-> segs[segmentIndex].id, segmentIndex |-> segmentIndex,
              text |-> selectedText, startOffset |-> startOffset,
              endOffset |-> startOffset + Len(selectedText)] >>

\* history: the mouseup that has just been handled
Selected(segs, el, raw, sel) ==
  [NoLast EXCEPT !.op = "select", !.pre = segs, !.el = el, !.raw = raw, !.sel = sel]

\* history: the record of a mouseup lasts until the next gesture
Forget(l) == IF l.op = "select" THEN NoLast ELSE l

\* mouseup after the user dragged over a part of the transcript.  The modals
\* cover the page, so the transcript is reachable only without one.
HandleMouseUp ==
  /\ Gesture
  /\ NoModal
  /\ opsLeft > 0
  /\ \E el \in 0..Len(segments) : \E raw \in Dragged(segments, el) :
       /\ textSelection' = ResolveSelection(segments, el, raw)
       /\ last' = Selected(segments, el, raw, textSelection')
  /\ UNCHANGED <<demo, segments, speakers, editHistory, editPhraseState, editSpeakerState,
                 db, pending, clock, budget, nWrites, run>>

\* mousedown outside the selection popup
HandleClickOutside ==
  /\ Gesture
  /\ last' = Forget(last)
  /\ textSelection # <<>>
  /\ textSelection' = <<>>
  /\ UNCHANGED <<demo, segments, speakers, editHistory, editPhraseState, editSpeakerState,
                 db, pending, clock, budget, nWrites, run>>

HandleEditPhrase ==
  /\ Gesture
  /\ last' = Forget(last)
  /\ textSelection # <<>>
  /\ LET sel == textSelection[1]
     IN /\ sel.segmentIndex <= Len(segments)
        /\ editPhraseState' =
             << Descriptor(sel, segments[sel.segmentIndex], sel.text, NoId) >>
  /\ textSelection' = <<>>
  /\ UNCHANGED <<demo, segments, speakers, editHistory, editSpeakerState, db, pending,
                 clock, budget, nWrites, run>>

HandleEditSpeaker ==
  /\ Gesture
  /\ last' = Forget(last)
  /\ textSelection # <<>>
  /\ LET sel == textSelection[1]
     IN /\ sel.segmentIndex <= Len(segments)
        /\ editSpeakerState' =
             << Descriptor(sel, segments[sel.segmentIndex], <<>>,
                           segments[sel.segmentIndex].speakerId) >>
  /\ textSelection' = <<>>
  /\ UNCHANGED <<demo, segments, speakers, editHistory, editPhraseState, db, pending,
                 clock, budget, nWrites, run>>

\* onChange of the Edit Phrase textarea
ChangeNewText ==
  /\ Gesture
  /\ editPhraseState # <<>>
  /\ \E t \in NewTexts :
       /\ t # editPhraseState[1].newText
       /\ editPhraseState' = << [editPhraseState[1] EXCEPT !.newText = t] >>
  /\ UNCHANGED <<demo, segments, speakers, editHistory, textSelection, editSpeakerState,
                 db, pending, clock, budget, nWrites, last, run>>

CancelEditPhrase ==
  /\ Gesture
  /\ editPhraseState # <<>>
  /\ editPhraseState' = <<>>
  /\ UNCHANGED <<demo, segments, speakers, editHistory, textSelection, editSpeakerState,
                 db, pending, clock, budget, nWrites, last, run>>

\* click on a speaker of the Change Speaker modal
SelectSpeaker ==
  /\ Gesture
  /\ editSpeakerState # <<>>
  /\ \E k \in 1..Len(speakers) :
       /\ editSpeakerState' =
            << [editSpeakerState[1] EXCEPT !.newSpeakerId = speakers[k].id,
                  !.isCreatingNewSpeaker = FALSE, !.newSpeakerName = <<>>] >>
       /\ editSpeakerState' # editSpeakerState
  /\ UNCHANGED <<demo, segments, speakers, editHistory, textSelection, editPhraseState,
                 db, pending, clock, budget, nWrites, last, run>>

\* click on "Create New Speaker"
SelectCreateNewSpeaker ==
  /\ Gesture
  /\ editSpeakerState # <<>>
  /\ editSpeakerState' =
       << [editSpeakerState[1] EXCEPT !.isCreatingNewSpeaker = TRUE,
             !.newSpeakerName =
               IF editSpeakerState[1].newSpeakerName # <<>>
               THEN editSpeakerState[1].newSpeakerName
               ELSE DefaultSpeakerLabel(Len(speakers))] >>
  /\ editSpeakerState' # editSpeakerState
  /\ UNCHANGED <<demo, segments, speakers, editHistory, textSelection, editPhraseState,
                 db, pending, clock, budget, nWrites, last, run>>

\* onChange of the new-speaker input, rendered while isCreatingNewSpeaker
ChangeNewSpeakerName ==
  /\ Gesture
  /\ editSpeakerState # <<>>
  /\ editSpeakerState[1].isCreatingNewSpeaker
  /\ \E nm \in NewSpeakerNames :
       /\ nm # editSpeakerState[1].newSpeakerName
       /\ editSpeakerState' = << [editSpeakerState[1] EXCEPT !.newSpeakerName = nm] >>
  /\ UNCHANGED <<demo, segments, speakers, editHistory, textSelection, editPhraseState,
                 db, pending, clock, budget, nWrites, last, run>>

CancelEditSpeaker ==
  /\ Gesture
  /\ editSpeakerState # <<>>
  /\ editSpeakerState' = <<>>
  /\ UNCHANGED <<demo, segments, speakers, editHistory, textSelection, editPhraseState,
                 db, pending, clock, budget, nWrites, last, run>>

\* ------------------------------------------------------------------ commits

\* A suspended handler: the await it waits on and what its closure holds.
\* seen is history: the state the handler was invoked in.
Suspended(kind, d, segs, spks, id, text, sp, target, seen) ==
  [kind |-> kind, d |-> d, segs |-> segs, spks |-> spks, id |-> id,
   text |-> text, sp |-> sp, target |-> target, seen |-> seen]

\* creating: the request asks for a new speaker; addOk: storing it succeeded.
Seen(t1, t2) ==
  [pre |-> segments, preSpk |-> speakers, preHist |-> editHistory,
   preWrites |-> nWrites, preDb |-> dbSegments, creating |-> FALSE,
   addOk |-> TRUE, t1 |-> t1, t2 |-> t2]

Without(q, k) == SubSeq(q, 1, k - 1) \o SubSeq(q, k + 1, Len(q))

Entry(segs, spks, description) ==
  [segments |-> segs, speakers |-> spks, description |-> description]

\* The record of a commit request that has just finished (the step that ends
\* it sets dbSegments' and editSpeakerState' before it sets last').
Finished(op, p, target, creating, outcome, prev, post, postSpk, postHist, postWrites) ==
  [op |-> op, d |-> <<p.d>>, target |-> target, creating |-> creating,
   addOk |-> p.seen.addOk, outcome |-> outcome, pre |-> p.seen.pre,
   preSpk |-> p.seen.preSpk, preHist |-> p.seen.preHist,
   preWrites |-> p.seen.preWrites, preDb |-> p.seen.preDb, prev |-> prev,
   prevDb |-> dbSegments, post |-> post, postSpk |-> postSpk,
   postHist |-> postHist, postWrites |-> postWrites, postDb |-> dbSegments',
   postModal |-> editSpeakerState', t1 |-> p.seen.t1, t2 |-> p.seen.t2,
   raw |-> <<>>, el |-> 0, sel |-> <<>>]

\* history of the run: a commit is requested
RunStartOp(r, busy, hist) ==
  IF busy THEN [phase |-> "mixed", log |-> <<>>, undone |-> 0]
  ELSE IF hist = <<>> THEN [phase |-> "ops", log |-> <<>>, undone |-> 0]
  ELSE IF r.phase = "ops" THEN r
  ELSE [phase |-> "mixed", log |-> <<>>, undone |-> 0]

\* history of the run: a commit finished; it was invoked on segs and spks
RunCommit(r, segs, spks) ==
  IF r.phase = "ops"
  THEN [r EXCEPT !.log = Append(r.log, [segments |-> segs, speakers |-> spks])]
  ELSE r

RunStartUndo(r, busy) ==
  IF busy THEN [phase |-> "mixed", log |-> <<>>, undone |-> 0]
  ELSE IF r.phase \in {"ops", "undos"} THEN [r EXCEPT !.phase = "undos"]
  ELSE r

RunUndoDone(r) ==
  IF r.phase = "undos" THEN [r EXCEPT !.undone = r.undone + 1] ELSE r

\* Save of the Edit Phrase modal: saveEditedPhrase up to its await
SaveEditedPhrase ==
  /\ Gesture
  /\ editPhraseState # <<>>
  /\ opsLeft > 0
  /\ LET d == editPhraseState[1]
     IN /\ d.segmentIndex <= Len(segments)
        /\ editHistory' =
             PushToEditHistory(editHistory, Entry(segments, speakers, "Edit phrase"))
        /\ pending' =
             Append(pending,
                    Suspended("updateTranscriptSegment", d, <<>>, <<>>,
                              segments[d.segmentIndex].id, NewFullText(d), <<>>,
                              NoId, Seen(clock, clock)))
  /\ nWrites' = nWrites + 1
  /\ opsLeft' = opsLeft - 1
  /\ run' = RunStartOp(run, pending # <<>>, editHistory)
  /\ UNCHANGED <<demo, segments, speakers, ui, db, clock, undosLeft, failuresLeft, last>>

\* updateTranscriptSegment resolves (true or false) and saveEditedPhrase resumes
SaveEditedPhraseResumes ==
  \E k \in 1..Len(pending) : \E ok \in BOOLEAN :
    LET p == pending[k]
    IN /\ p.kind = "updateTranscriptSegment"
       /\ ~ok => failuresLeft > 0
       /\ failuresLeft' = IF ok THEN failuresLeft ELSE failuresLeft - 1
       /\ dbSegments' =
            IF ok THEN DbUpdateSegment(dbSegments, p.id, p.text) ELSE dbSegments
       /\ segments' = RewrittenSegments(segments, p.id, p.text)
       /\ editPhraseState' = <<>>
       /\ pending' = Without(pending, k)
       /\ UNCHANGED <<demo, speakers, editHistory, textSelection, editSpeakerState,
                      dbSpeakers, clock, opsLeft, undosLeft, busyLeft, nWrites>>
       /\ last' = Finished("rewrite", p, NoId, FALSE,
                           IF ok THEN "ok" ELSE "failed", segments, segments',
                           speakers, editHistory, nWrites)
       /\ run' = RunCommit(run, p.seen.pre, p.seen.preSpk)

\* What a Date.now() read can return after a read that returned c: the same
\* millisecond again or a later one (the first read has no earlier one to repeat).
Now(c) == IF c = 0 THEN {1} ELSE {c, c + 1}

\* Date.now() reads the reassignment makes: one per identifier it allocates
ClockReads(d) ==
  IF SelectedText(d) = <<>> THEN 0
  ELSE IF BeforeText(d) # <<>> /\ AfterText(d) # <<>> THEN 2
  ELSE 1

\* A same-speaker check that never fires.
NeverSameSpeaker(newSpeakerId, segment) == FALSE

\* newSpeakerId === segment.speakerId
IsSameSpeaker(newSpeakerId, segment) == newSpeakerId = segment.speakerId

\* saveSpeakerChange from "If same speaker, nothing to do" up to its await on
\* replaceTranscriptSegments.  segs and spks are the lists of the closure, rest
\* the other suspended handlers, seen the state at the click.
SaveSpeakerChangeFrom(segs, spks, d, newSpeakerId, creating, rest, seen, hist, writes, started) ==
  LET segment == segs[d.segmentIndex]
  IN IF IsSameSpeaker(newSpeakerId, segment)
     THEN /\ editSpeakerState' = <<>>
          /\ editHistory' = hist
          /\ pending' = rest
          /\ nWrites' = writes
          /\ clock' = clock
          /\ run' = run
          /\ last' = [NoLast EXCEPT !.op = "sameSpeaker", !.d = <<d>>,
                        !.target = newSpeakerId, !.creating = creating,
                        !.addOk = seen.addOk,
                        !.pre = seen.pre, !.preSpk = seen.preSpk,
                        !.preHist = seen.preHist, !.preWrites = seen.preWrites,
                        !.preDb = seen.preDb, !.prev = segments,
                        !.prevDb = dbSegments, !.post = segments',
                        !.postSpk = speakers', !.postHist = hist,
                        !.postWrites = writes, !.postDb = dbSegments']
     ELSE \E t1 \in (IF ClockReads(d) > 0 THEN Now(clock) ELSE {clock}) :
          \E t2 \in (IF ClockReads(d) > 1 THEN Now(t1) ELSE {t1}) :
            /\ editHistory' =
                 PushToEditHistory(hist, Entry(segs, spks, "Change speaker"))
            /\ pending' =
                 Append(rest,
                        Suspended("replaceTranscriptSegments", d,
                                  ReassignedSegments(segs, d, newSpeakerId, t1, t2),
                                  <<>>, NoId, <<>>, <<>>, newSpeakerId,
                                  [seen EXCEPT !.t1 = t1, !.t2 = t2,
                                               !.creating = creating]))
            /\ nWrites' = writes + 1
            /\ clock' = t2
            /\ run' = started
            /\ UNCHANGED <<editSpeakerState, last>>

\* A Save button that is never disabled.
SaveNeverDisabled(d) == FALSE

\* disabled={isCreatingNewSpeaker && !newSpeakerName?.trim()} of the Save button
SaveDisabled(d) == d.isCreatingNewSpeaker /\ Trim(d.newSpeakerName) = <<>>

\* Save of the Change Speaker modal: saveSpeakerChange up to its first await.
\* createNewSpeaker returns null without a storage call on a name that trims
\* to nothing, and saveSpeakerChange then returns.
SaveSpeakerChange ==
  /\ Gesture
  /\ editSpeakerState # <<>>
  /\ opsLeft > 0
  /\ opsLeft' = opsLeft - 1
  /\ UNCHANGED <<demo, segments, speakers, textSelection, editPhraseState, db, undosLeft,
                 failuresLeft>>
  /\ LET d == editSpeakerState[1]
     IN /\ ~SaveDisabled(d)
        /\ d.segmentIndex <= Len(segments)
        /\ IF d.isCreatingNewSpeaker /\ d.newSpeakerName # <<>> /\ Trim(d.newSpeakerName) = <<>>
           THEN UNCHANGED <<editHistory, editSpeakerState, pending, clock, nWrites,
                            run, last>>
           ELSE IF d.isCreatingNewSpeaker /\ d.newSpeakerName # <<>>
           THEN \* createNewSpeaker up to its await on addSpeaker
                \E t \in Now(clock) :
                  /\ pending' =
                       Append(pending,
                              Suspended("addSpeaker", d, segments, speakers, NoId,
                                        <<>>,
                                        << [id |-> FreshId(t, "speaker"),
                                            label |-> Trim(d.newSpeakerName)] >>,
                                        NoId, Seen(clock, clock)))
                  /\ clock' = t
                  /\ nWrites' = nWrites + 1
                  /\ run' = RunStartOp(run, pending # <<>>, editHistory)
                  /\ UNCHANGED <<editHistory, editSpeakerState, last>>
           ELSE SaveSpeakerChangeFrom(segments, speakers, d, d.newSpeakerId, FALSE,
                                      pending, Seen(clock, clock), editHistory,
                                      nWrites,
                                      RunStartOp(run, pending # <<>>, editHistory))

\* A createNewSpeaker that returns the speaker whether or not it was stored.
CreatedRegardless(success, newSpeaker) == <<newSpeaker>>

\* What createNewSpeaker returns once addSpeaker has resolved: the speaker, or
\* null (none here) when storing it failed.
CreatedSpeaker(success, newSpeaker) == IF success THEN <<newSpeaker>> ELSE <<>>

\* addSpeaker resolves and createNewSpeaker, then saveSpeakerChange, resume.
\* db.speakers.add throws on an existing key; addSpeaker then returns false.
CreateNewSpeakerResumes ==
  \E k \in 1..Len(pending) : \E ok \in BOOLEAN :
    LET p == pending[k]
        created == CreatedSpeaker(ok, p.sp[1])
    IN /\ p.kind = "addSpeaker"
       /\ ok => \A row \in dbSpeakers : row.id # p.sp[1].id
       /\ ~ok => failuresLeft > 0
       /\ failuresLeft' = IF ok THEN failuresLeft ELSE failuresLeft - 1
       /\ dbSpeakers' = IF ok THEN dbSpeakers \cup {p.sp[1]} ELSE dbSpeakers
       /\ speakers' = IF ok THEN Append(speakers, p.sp[1]) ELSE speakers
       /\ UNCHANGED <<demo, segments, textSelection, editPhraseState, dbSegments, opsLeft,
                      undosLeft, busyLeft>>
       /\ IF created # <<>>
          THEN SaveSpeakerChangeFrom(p.segs, p.spks, p.d, created[1].id, TRUE,
                                     Without(pending, k),
                                     [p.seen EXCEPT !.addOk = ok], editHistory,
                                     nWrites, run)
          ELSE \* "Failed to create speaker": saveSpeakerChange returns
               /\ pending' = Without(pending, k)
               /\ UNCHANGED <<editHistory, editSpeakerState, clock, nWrites, run>>
               /\ last' = Finished("createFailed", [p EXCEPT !.seen.addOk = ok],
                                   NoId, TRUE, "failed", segments, segments,
                                   speakers, editHistory, nWrites)

\* replaceTranscriptSegments resolves and saveSpeakerChange resumes
SaveSpeakerChangeResumes ==
  \E k \in 1..Len(pending) : \E outcome \in ReplaceOutcomes :
    LET p == pending[k]
    IN /\ p.kind = "replaceTranscriptSegments"
       /\ outcome # "ok" => failuresLeft > 0
       /\ failuresLeft' = IF outcome = "ok" THEN failuresLeft ELSE failuresLeft - 1
       /\ dbSegments' = DbReplaceSegments(dbSegments, p.segs, outcome)
       /\ segments' = p.segs
       /\ editSpeakerState' = <<>>
       /\ pending' = Without(pending, k)
       /\ UNCHANGED <<demo, speakers, editHistory, textSelection, editPhraseState,
                      dbSpeakers, clock, opsLeft, undosLeft, busyLeft, nWrites>>
       /\ last' = Finished("reassign", p, p.target, p.seen.creating, outcome,
                           segments, p.segs, speakers, editHistory, nWrites)
       /\ run' = RunCommit(run, p.seen.pre, p.seen.preSpk)

\* The entry undoLastEdit takes from its closure's editHistory.
LastEntry(hist) == hist[Len(hist)]

\* click on Undo (rendered while the history is not empty; the mousedown of the
\* click closes the selection popup): undoLastEdit up to its await
UndoLastEdit ==
  /\ Gesture
  /\ editHistory # <<>>
  /\ NoModal
  /\ undosLeft > 0
  /\ pending' =
       Append(pending,
              Suspended("undo", <<>>, LastEntry(editHistory).segments,
                        LastEntry(editHistory).speakers, NoId, <<>>, <<>>, NoId,
                        Seen(clock, clock)))
  /\ textSelection' = <<>>
  /\ nWrites' = nWrites + 1
  /\ undosLeft' = undosLeft - 1
  /\ run' = RunStartUndo(run, pending # <<>>)
  /\ last' = NoLast
  /\ UNCHANGED <<demo, segments, speakers, editHistory, editPhraseState, editSpeakerState,
                 db, clock, opsLeft, failuresLeft>>

\* An undo that deletes the stored speakers missing from the restored list.
DbSpeakersPruned(rows, spks) == {row \in rows : \E i \in 1..Len(spks) : spks[i] = row}

\* The speakers table after undoLastEdit: it calls replaceTranscriptSegments
\* and no speaker function of the storage module.
DbSpeakersAfterUndo(rows, spks) == rows

\* replaceTranscriptSegments resolves and undoLastEdit resumes
UndoLastEditResumes ==
  \E k \in 1..Len(pending) : \E outcome \in ReplaceOutcomes :
    LET p == pending[k]
    IN /\ p.kind = "undo"
       /\ outcome # "ok" => failuresLeft > 0
       /\ failuresLeft' = IF outcome = "ok" THEN failuresLeft ELSE failuresLeft - 1
       /\ dbSegments' = DbReplaceSegments(dbSegments, p.segs, outcome)
       /\ segments' = p.segs
       /\ speakers' = p.spks
       /\ dbSpeakers' = DbSpeakersAfterUndo(dbSpeakers, p.spks)
       /\ editHistory' = DropLast(editHistory)
       /\ pending' = Without(pending, k)
       /\ UNCHANGED <<demo, ui, clock, opsLeft, undosLeft, busyLeft, nWrites>>
       /\ last' = Finished("undo", p, NoId, FALSE, outcome, segments, p.segs,
                           p.spks, editHistory', nWrites)
       /\ run' = RunUndoDone(run)

Next ==
  \/ HandleMouseUp
  \/ HandleClickOutside
  \/ HandleEditPhrase
  \/ HandleEditSpeaker
  \/ ChangeNewText
  \/ CancelEditPhrase
  \/ SelectSpeaker
  \/ SelectCreateNewSpeaker
  \/ ChangeNewSpeakerName
  \/ CancelEditSpeaker
  \/ SaveEditedPhrase
  \/ SaveEditedPhraseResumes
  \/ SaveSpeakerChange
  \/ CreateNewSpeakerResumes
  \/ SaveSpeakerChangeResumes
  \/ UndoLastEdit
  \/ UndoLastEditResumes

Spec == Init /\ [][Next]_vars

\* ------------------------------------------------------------------ a long history

\* The transcript the replayed history starts from.
HistTranscript ==
  << Seg(<<0, "s1">>, SpeakerA.id, <<"a">>, 0, 2),
     Seg(<<0, "s2">>, SpeakerB.id, <<"b">>, 2, 3) >>

\* The text the k-th replayed edit types over the first segment's text.
HistText(k) == IF k % 2 = 1 THEN <<"b">> ELSE <<"a">>

\* The page after k edits made one after the other from HistTranscript with
\* no undo: the k-th selects the whole text of the first segment, opens Edit
\* Phrase, types HistText(k) and saves (handleMouseUp, handleEditPhrase,
\* saveEditedPhrase with a successful updateTranscriptSegment).
RECURSIVE Replayed(_)
Replayed(k) ==
  IF k = 0
  THEN [segments |-> HistTranscript, editHistory |-> <<>>,
        dbSegments |-> DbBulkPut(HistTranscript), log |-> <<>>]
  ELSE LET s == Replayed(k - 1)
           spks == <<SpeakerA, SpeakerB>>
           sel == ResolveSelection(s.segments, 1, s.segments[1].text)[1]
           d == Descriptor(sel, s.segments[1], HistText(k), NoId)
       IN [segments |-> RewrittenSegments(s.segments, d.segmentId, NewFullText(d)),
           editHistory |->
             PushToEditHistory(s.editHistory, Entry(s.segments, spks, "Edit phrase")),
           dbSegments |-> DbUpdateSegment(s.dbSegments, d.segmentId, NewFullText(d)),
           log |-> Append(s.log, [segments |-> s.segments, speakers |-> spks])]

\* Undo clicks allowed in a run of SpecHist: one more than it has commits.
HistUndos == PreOps + HistOps + 1

InitHist ==
  LET s == Replayed(PreOps)
  IN /\ DemoAtRest
     /\ segments = s.segments
     /\ speakers = <<SpeakerA, SpeakerB>>
     /\ editHistory = s.editHistory
     /\ textSelection = <<>>
     /\ editPhraseState = <<>>
     /\ editSpeakerState = <<>>
     /\ dbSegments = s.dbSegments
     /\ dbSpeakers = {SpeakerA, SpeakerB}
     /\ pending = <<>>
     /\ clock = 0
     /\ nWrites = PreOps
     /\ last = NoLast
     /\ run = [phase |-> "ops", log |-> s.log, undone |-> 0]
     /\ opsLeft = HistOps
     /\ undosLeft = HistUndos
     /\ failuresLeft = 0
     /\ busyLeft = 0

SpecHist == InitHist /\ [][Next]_vars

\* ------------------------------------------------------------------ one saved edit

\* Gestures allowed during awaits in a run of SpecEdited: enough to select a
\* span and open a modal while an undo is suspended.
EditedBusyGestures == MaxBusyGestures + 1

\* The page after one saved phrase edit (the first segment reads "b", the
\* history holds the loaded list); storage does not fail.
InitEdited ==
  LET s == Replayed(1)
  IN /\ DemoAtRest
     /\ segments = s.segments
     /\ speakers = <<SpeakerA, SpeakerB>>
     /\ editHistory = s.editHistory
     /\ textSelection = <<>>
     /\ editPhraseState = <<>>
     /\ editSpeakerState = <<>>
     /\ dbSegments = s.dbSegments
     /\ dbSpeakers = {SpeakerA, SpeakerB}
     /\ pending = <<>>
     /\ clock = 0
     /\ nWrites = 1
     /\ last = NoLast
     /\ run = [phase |-> "ops", log |-> s.log, undone |-> 0]
     /\ opsLeft = MaxOps
     /\ undosLeft = MaxUndos
     /\ failuresLeft = 0
     /\ busyLeft = EditedBusyGestures

SpecEdited == InitEdited /\ [][Next]_vars

\* ------------------------------------------------------------------ a talked-over transcript

\* A loaded transcript, sorted by startTime, whose second speaker starts
\* talking while the first is still speaking; both segments are long enough
\* for a span in the middle.
SplitTranscript ==
  << Seg(<<0, "s1">>, SpeakerA.id, <<"a", "b", "a">>, 0, 3),
     Seg(<<0, "s2">>, SpeakerB.id, <<"b", "a", "b">>, 1, 4) >>

\* Two operations one after the other on that transcript; storage does not
\* fail and nothing is clicked while a handler is suspended.
InitSplit ==
  /\ DemoAtRest
  /\ InitWith(SplitTranscript)
  /\ opsLeft = SplitOps
  /\ undosLeft = MaxUndos
  /\ failuresLeft = 0
  /\ busyLeft = 0

SpecSplit == InitSplit /\ [][Next]_vars

\* ------------------------------------------------------------------ the speaker sidebar

\* Names typed into the sidebar's new-speaker input: a blank and a name.
SidebarNames == {<<" ">>, <<"C">>}

\* The sidebar additions suspended at addSpeaker.
SidebarAdditions == {k \in 1..Len(pending) : pending[k].kind = "addSpeakerFromSidebar"}

\* Enter or the check button of the sidebar's new-speaker input (not reachable
\* under a modal; the mousedown closes the selection popup):
\* handleAddSpeakerFromSidebar and createNewSpeaker up to the await on addSpeaker
HandleAddSpeakerFromSidebar ==
  /\ Gesture
  /\ NoModal
  /\ Cardinality(dbSpeakers) + Cardinality(SidebarAdditions) < MaxSpeakers
  /\ textSelection' = <<>>
  /\ last' = Forget(last)
  /\ \E name \in SidebarNames :
       IF Trim(name) = <<>>
       THEN UNCHANGED <<pending, clock, nWrites>>
       ELSE \E t \in Now(clock) :
              /\ pending' =
                   Append(pending,
                          Suspended("addSpeakerFromSidebar", <<>>, <<>>, <<>>, NoId,
                                    <<>>,
                                    << [id |-> FreshId(t, "speaker"),
                                        label |-> Trim(name)] >>,
                                    NoId, Seen(clock, clock)))
              /\ clock' = t
              /\ nWrites' = nWrites + 1
  /\ UNCHANGED <<demo, segments, speakers, editHistory, editPhraseState,
                 editSpeakerState, db, budget, run>>

\* addSpeaker resolves and createNewSpeaker, then handleAddSpeakerFromSidebar,
\* resume.  db.speakers.add throws on an existing key; addSpeaker then returns
\* false and the speaker list stays as it is.
AddSpeakerFromSidebarResumes ==
  \E k \in SidebarAdditions : \E ok \in BOOLEAN :
    LET p == pending[k]
        taken == \E row \in dbSpeakers : row.id = p.sp[1].id
    IN /\ ok => ~taken
       /\ (~ok /\ ~taken) => failuresLeft > 0
       /\ failuresLeft' = IF ok \/ taken THEN failuresLeft ELSE failuresLeft - 1
       /\ dbSpeakers' = IF ok THEN dbSpeakers \cup {p.sp[1]} ELSE dbSpeakers
       /\ speakers' = IF ok THEN Append(speakers, p.sp[1]) ELSE speakers
       /\ pending' = Without(pending, k)
       /\ UNCHANGED <<demo, segments, editHistory, ui, dbSegments, clock, opsLeft,
                      undosLeft, busyLeft, nWrites, last, run>>

NextSidebar ==
  \/ Next
  \/ HandleAddSpeakerFromSidebar
  \/ AddSpeakerFromSidebarResumes

\* The page after one saved phrase edit, with the speaker sidebar in use.
SpecSidebar == InitEdited /\ [][NextSidebar]_vars

\* ------------------------------------------------------------------ an abutting transcript

\* A loaded transcript, sorted by startTime, in which the second speaker starts
\* when the first stops; both segments are long enough for a span in the middle.
AbuttingTranscript ==
  << Seg(<<0, "s1">>, SpeakerA.id, <<"a", "b", "a">>, 0, 3),
     Seg(<<0, "s2">>, SpeakerB.id, <<"b", "a", "b">>, 3, 6) >>

\* Operations one after the other on that transcript; storage does not fail
\* and nothing is clicked while a handler is suspended.
InitAbutting ==
  /\ DemoAtRest
  /\ InitWith(AbuttingTranscript)
  /\ opsLeft = AbuttingOps
  /\ undosLeft = MaxUndos
  /\ failuresLeft = 0
  /\ busyLeft = 0

SpecAbutting == InitAbutting /\ [][Next]_vars

\* ------------------------------------------------------------------ two splits in one millisecond

\* The page after two reassignments saved one after the other on
\* AbuttingTranscript, both reading the same value from Date.now(): the "ab" at
\* the start of the first segment given to Speaker B, then the "ab" at the end
\* of the second loaded segment given to Speaker A (handleMouseUp,
\* handleEditSpeaker, saveSpeakerChange with a successful
\* replaceTranscriptSegments, twice).
Collided ==
  LET spks == <<SpeakerA, SpeakerB>>
      l0 == AbuttingTranscript
      d1 == Descriptor(ResolveSelection(l0, 1, <<"a", "b">>)[1], l0[1], <<>>,
                       SpeakerB.id)
      l1 == ReassignedSegments(l0, d1, SpeakerB.id, 1, 1)
      i2 == FindIndex(l1, l0[2].id)
      d2 == Descriptor(ResolveSelection(l1, i2, <<"a", "b">>)[1], l1[i2], <<>>,
                       SpeakerA.id)
      l2 == ReassignedSegments(l1, d2, SpeakerA.id, 1, 1)
  IN [segments |-> l2,
      editHistory |->
        PushToEditHistory(
          PushToEditHistory(<<>>, Entry(l0, spks, "Change speaker")),
          Entry(l1, spks, "Change speaker")),
      dbSegments |-> DbBulkPut(l2),
      log |-> << [segments |-> l0, speakers |-> spks],
                 [segments |-> l1, speakers |-> spks] >>]

InitCollided ==
  LET s == Collided
  IN /\ DemoAtRest
     /\ segments = s.segments
     /\ speakers = <<SpeakerA, SpeakerB>>
     /\ editHistory = s.editHistory
     /\ textSelection = <<>>
     /\ editPhraseState = <<>>
     /\ editSpeakerState = <<>>
     /\ dbSegments = s.dbSegments
     /\ dbSpeakers = {SpeakerA, SpeakerB}
     /\ pending = <<>>
     /\ clock = 1
     /\ nWrites = 2
     /\ last = NoLast
     /\ run = [phase |-> "ops", log |-> s.log, undone |-> 0]
     /\ opsLeft = MaxOps
     /\ undosLeft = MaxUndos
     /\ failuresLeft = 0
     /\ busyLeft = 0

SpecCollided == InitCollided /\ [][Next]_vars

\* ------------------------------------------------------------------ uploads

\* The upload page once the usage provider has mounted (refreshUsage) in a
\* browser without a stored session.
InitUsage ==
  /\ InitWith(HistTranscript)
  /\ opsLeft = 0 /\ undosLeft = 0 /\ failuresLeft = 0 /\ busyLeft = 0
  /\ env \in Envs
  /\ now = 0
  /\ demoUsage = <<InitializeUsage(0)>>
  /\ checkResult = CheckUsageLimits(InitializeUsage(0), GetUsageLimits(env, TRUE), 0)
  /\ lastRequest = NoRequest
  /\ uploadsLeft = MaxUploads
  /\ elapsesLeft = MaxElapses

\* time passes
Elapse ==
  /\ elapsesLeft > 0
  /\ elapsesLeft' = elapsesLeft - 1
  /\ now' = now + ElapseMs
  /\ UNCHANGED <<page, demoUsage, checkResult, env, lastRequest, uploadsLeft>>

\* refreshUsage, from the provider's one-minute interval
RefreshUsage ==
  /\ demoUsage # <<>>
  /\ checkResult' = CheckUsageLimits(demoUsage[1], GetUsageLimits(env, TRUE), now)
  /\ checkResult' # checkResult
  /\ UNCHANGED <<page, demoUsage, env, now, lastRequest, uploadsLeft, elapsesLeft>>

\* handleUpload with a file chosen: refreshUsage, the test of the checkResult of
\* the last render, the POST to /api/transcribe with the X-Demo-Usage header,
\* the route's checkDemoLimits, the call of the transcription service (which
\* may throw) and trackTranscription.
HandleUpload ==
  /\ uploadsLeft > 0
  /\ uploadsLeft' = uploadsLeft - 1
  /\ demoUsage # <<>>
  /\ UNCHANGED <<page, env, now, elapsesLeft>>
  /\ LET refreshed == CheckUsageLimits(demoUsage[1], GetUsageLimits(env, TRUE), now)
         verdict == CheckDemoLimits(demoUsage, GetUsageLimits(env, FALSE), now)
     IN IF ~checkResult.isAllowed
        THEN \* the limit dialog is shown, no request is made
             /\ checkResult' = refreshed
             /\ lastRequest' = NoRequest
             /\ UNCHANGED demoUsage
        ELSE IF ~verdict.allowed
        THEN /\ checkResult' = refreshed
             /\ lastRequest' = [status |-> 429, reason |-> verdict.reason,
                                header |-> demoUsage, at |-> now, called |-> FALSE]
             /\ UNCHANGED demoUsage
        ELSE \E ok \in BOOLEAN : \E seconds \in AudioSeconds :
               IF ok
               THEN /\ demoUsage' =
                         <<AddTranscriptionUsage(demoUsage[1], seconds,
                                                 TranscriptionCost(seconds))>>
                    /\ checkResult' =
                         CheckUsageLimits(demoUsage'[1], GetUsageLimits(env, TRUE), now)
                    /\ lastRequest' = [status |-> 200, reason |-> "none",
                                       header |-> demoUsage, at |-> now,
                                       called |-> TRUE]
               ELSE /\ checkResult' = refreshed
                    /\ lastRequest' = [status |-> 500, reason |-> "none",
                                       header |-> demoUsage, at |-> now,
                                       called |-> TRUE]
                    /\ UNCHANGED demoUsage

NextUsage ==
  \/ Elapse
  \/ RefreshUsage
  \/ HandleUpload

SpecUsage == InitUsage /\ [][NextUsage]_vars

\* ------------------------------------------------------------------ properties

\* segs is in non-decreasing order of startTime
Sorted(segs) ==
  \A i \in 1..Len(segs) : \A j \in i..Len(segs) :
    RLeq(segs[i].startTime, segs[j].startTime)

\* What is left of the original text before and after the span of descriptor
\* d, and the span itself, without the whitespace at their ends.
PartBefore(d) == Trim(Slice(d.originalText, 0, d.startOffset))
PartSelected(d) == Trim(Slice(d.originalText, d.startOffset, d.endOffset))
PartAfter(d) == Trim(Slice(d.originalText, d.endOffset, Len(d.originalText)))

\* The span of descriptor d covers the whole text, trimming aside.
WholeSpan(d) == PartBefore(d) = <<>> /\ PartAfter(d) = <<>> /\ PartSelected(d) # <<>>

\* The span of descriptor d has text on both sides.
MiddleSpan(d) == PartBefore(d) # <<>> /\ PartAfter(d) # <<>> /\ PartSelected(d) # <<>>

\* The span of descriptor d leaves text on one side or on both.
SplittingSpan(d) ==
  PartSelected(d) # <<>> /\ (PartBefore(d) # <<>> \/ PartAfter(d) # <<>>)

\* A run of commits made one after the other from an empty history, followed
\* by undos only, all finished; run.log holds the lists each commit started from.
CleanUndoRun == run.phase = "undos" /\ pending = <<>> /\ run.undone >= 1

\* C1: after N commits (rewrites or reassignments, with or without a new
\* speaker) made from an empty history, 1 <= N <= 10, and then N undos, each
\* finished before the next gesture, the segment list and the speaker list are
\* the ones the first commit started from.
UndoRestoresFirstState ==
  (CleanUndoRun /\ Len(run.log) \in 1..10 /\ run.undone = Len(run.log))
    => /\ segments = run.log[1].segments
       /\ speakers = run.log[1].speakers

\* Ten commits, the last a reassignment to a newly created speaker, and ten
\* undos have brought back the loaded transcript and the loaded speakers.
UndoRestoresFirstStateWitness ==
  /\ CleanUndoRun
  /\ Len(run.log) = 10
  /\ run.undone = 10
  /\ Cardinality(dbSpeakers) = 3
  /\ segments = HistTranscript
  /\ speakers = <<SpeakerA, SpeakerB>>
  /\ editHistory = <<>>

\* C2 as the specification states it: when the storage write of a rewrite or
\* of a reassignment reports failure, the segment list after the operation is
\* the list before it.
FailedWriteLeavesSegments ==
  (last.op \in {"rewrite", "reassign"} /\ last.outcome # "ok")
    => last.post = last.prev

\* C3: the loaded list being sorted by startTime, the segment list is sorted in
\* non-decreasing order of startTime after every rewrite, reassignment and undo
\* (and so in every state).
SegmentsSorted == Sorted(segments)

\* A reassignment has finished whose list was out of order before the sort.
SegmentsSortedWitness ==
  /\ last.op = "reassign"
  /\ segments = last.post
  /\ ~Sorted(SplitMergeSegments(last.pre, last.d[1], last.target, last.t1, last.t2))

\* The last n elements of s.
LastN(s, n) == SubSeq(s, Len(s) - n + 1, Len(s))

\* C4: the history never holds more than 10 entries; after commits made one
\* after the other it holds the states the last (at most 10) of them started
\* from, so a push onto a full history has evicted the oldest; and after more
\* than 10 such commits the k-th undo restores the state the k-th last commit
\* started from, the 10th undo empties the history (no 11th is possible), and
\* the state the first commit started from is not among those restored.
HistoryKeepsLastTen ==
  /\ Len(editHistory) <= 10
  /\ (run.phase = "ops" /\ pending = <<>>) =>
       LET n == IF Len(run.log) < 10 THEN Len(run.log) ELSE 10
           kept == LastN(run.log, n)
       IN /\ Len(editHistory) = n
          /\ \A i \in 1..n :
               /\ editHistory[i].segments = kept[i].segments
               /\ editHistory[i].speakers = kept[i].speakers
  /\ (CleanUndoRun /\ Len(run.log) > 10) =>
       /\ run.undone <= 10
       /\ Len(editHistory) = 10 - run.undone
       /\ Len(run.log) - run.undone + 1 > 1
       /\ segments = run.log[Len(run.log) - run.undone + 1].segments

\* Eleven commits and then ten undos: the history is empty although the model
\* would allow another undo, and the list is the one the second commit started
\* from, not the one the first started from.
HistoryKeepsLastTenWitness ==
  /\ CleanUndoRun
  /\ Len(run.log) = 11
  /\ run.undone = 10
  /\ editHistory = <<>>
  /\ undosLeft > 0
  /\ segments = run.log[2].segments
  /\ segments # run.log[1].segments

\* The segment the finished reassignment `last` was invoked on.
Target(l) == l.pre[l.d[1].segmentIndex]

\* The previous segment belongs to the speaker the span is given to.
PrevOwnedByTarget(l) ==
  /\ l.d[1].segmentIndex > 1
  /\ l.pre[l.d[1].segmentIndex - 1].speakerId = l.target

\* Only the target segment's speakerId and isEdited differ between the list
\* the reassignment was invoked on and its result.
OnlyRelabelled(l) ==
  /\ Len(l.post) = Len(l.pre)
  /\ \A i \in 1..Len(l.pre) :
       l.post[i] = IF l.pre[i].id = Target(l).id
                   THEN [l.pre[i] EXCEPT !.speakerId = l.target, !.isEdited = TRUE]
                   ELSE l.pre[i]

\* C5 as the specification states it: a reassignment of a whole-segment span
\* to a different speaker only relabels the target segment, whatever speakers
\* own the previous and the next segment.
WholeSpanOnlyRelabels ==
  (last.op = "reassign" /\ WholeSpan(last.d[1])) => OnlyRelabelled(last)

\* C5, amended: a reassignment of a whole-segment span to a different speaker
\* only relabels the target segment, provided the previous segment is absent
\* or owned by another speaker than the target one.
WholeSpanOnlyRelabelsUnlessPrev ==
  (last.op = "reassign" /\ WholeSpan(last.d[1]) /\ ~PrevOwnedByTarget(last))
    => OnlyRelabelled(last)

\* A whole-segment span has been given to the speaker of the next segment.
WholeSpanOnlyRelabelsWitness ==
  /\ last.op = "reassign"
  /\ WholeSpan(last.d[1])
  /\ last.d[1].segmentIndex < Len(last.pre)
  /\ last.pre[last.d[1].segmentIndex + 1].speakerId = last.target
  /\ segments = last.post
  /\ Len(segments) = Len(last.pre)

\* The finished reassignment l merged its span into the previous or the next
\* segment instead of allocating a segment for it.
Absorbed(l) ==
  LET d == l.d[1]
      i == d.segmentIndex
  IN \/ PartBefore(d) = <<>> /\ PrevOwnedByTarget(l)
     \/ /\ PartBefore(d) # <<>>
        /\ PartAfter(d) = <<>>
        /\ i < Len(l.pre)
        /\ l.pre[i + 1].speakerId = l.target

\* The identifiers of the segments the finished reassignment made out of its
\* target alone: the target's own and the ones it allocated.  A neighbour the
\* span was merged into holds text of two segments and is not one of them.
PieceIds(l) ==
  {Target(l).id}
    \cup (IF MiddleSpan(l.d[1])
          THEN {FreshId(l.t1, "selected"), FreshId(l.t2, "after")}
          ELSE IF Absorbed(l) THEN {} ELSE {FreshId(l.t1, "new")})

\* The pieces, in the order of the resulting list: the segments with those
\* identifiers that the reassignment wrote (a segment it left as it was is no
\* piece, even when an identifier allocated now repeats its identifier).
Pieces(l) ==
  SelectSeq(l.post, LAMBDA seg : /\ seg.id \in PieceIds(l)
                                 /\ \A k \in 1..Len(l.pre) : l.pre[k] # seg)

RECURSIVE ConcatTexts(_)
ConcatTexts(segs) ==
  IF segs = <<>> THEN <<>> ELSE Head(segs).text \o ConcatTexts(Tail(segs))

RewriteReplacesSpan ==
  (last.op = "rewrite" /\ Target(last).text = last.d[1].originalText) =>
    LET d == last.d[1]
        T == d.originalText
        expected == Slice(T, 0, d.startOffset) \o d.newText
                      \o Slice(T, d.endOffset, Len(T))
    IN /\ Len(last.post) = Len(last.prev)
       /\ \A i \in 1..Len(last.prev) :
            last.post[i] = IF last.prev[i].id = Target(last).id
                           THEN [last.prev[i] EXCEPT !.text = expected,
                                                     !.isEdited = TRUE]
                           ELSE last.prev[i]

\* A rewrite inside a text (something before the span and something after it)
\* has changed the text on screen.
RewriteReplacesSpanWitness ==
  /\ last.op = "rewrite"
  /\ Target(last).text = last.d[1].originalText
  /\ last.d[1].startOffset > 0
  /\ last.d[1].endOffset < Len(last.d[1].originalText)
  /\ last.d[1].newText # last.d[1].selectedText
  /\ segments = last.post
  /\ segments # last.prev

\* C8: a request to give a span to the existing speaker who already owns the
\* segment ends with the segment list, the speaker list and the edit history as
\* they were and with no storage write made.
SameSpeakerChangesNothing ==
  (/\ last.op \in {"sameSpeaker", "reassign"}
   /\ ~last.creating
   /\ last.target = Target(last).speakerId)
    => /\ last.post = last.pre
       /\ last.postSpk = last.preSpk
       /\ last.postHist = last.preHist
       /\ last.postWrites = last.preWrites

\* Save was clicked with the owning speaker selected; the modal has closed.
SameSpeakerChangesNothingWitness ==
  /\ last.op = "sameSpeaker"
  /\ ~last.creating
  /\ last.target = Target(last).speakerId
  /\ editSpeakerState = <<>>
  /\ segments = last.pre
  /\ nWrites = last.preWrites

FailedCreateChangesNothing ==
  (last.op # "none" /\ last.creating /\ ~last.addOk)
    => /\ last.post = last.pre
       /\ last.postSpk = last.preSpk
       /\ last.postDb = last.preDb
       /\ last.postHist = last.preHist
       /\ last.postModal = last.d

\* addSpeaker has just failed: the modal is open for another try, nothing is
\* suspended, and the only storage call made was the failed one.
FailedCreateChangesNothingWitness ==
  /\ last.op = "createFailed"
  /\ last.creating
  /\ ~last.addOk
  /\ editSpeakerState = last.d
  /\ editSpeakerState[1].isCreatingNewSpeaker
  /\ pending = <<>>
  /\ segments = last.pre
  /\ nWrites = last.preWrites + 1

\* The Change Speaker modal asks for a new speaker whose name is empty or blank.
BlankCreate(modal) ==
  /\ modal # <<>>
  /\ modal[1].isCreatingNewSpeaker
  /\ Trim(modal[1].newSpeakerName) = <<>>

\* C12: while the Change Speaker modal asks for a new speaker with an empty or
\* whitespace-only name (and no other operation is in progress), nothing the
\* user does, Save included, changes a segment, adds a speaker, writes to
\* storage, pushes a history entry or starts an operation.
BlankCreateChangesNothing ==
  [][(BlankCreate(editSpeakerState) /\ pending = <<>>)
       => UNCHANGED <<segments, speakers, editHistory, dbSegments, dbSpeakers,
                      nWrites, pending>>]_vars

\* The name input has been cleared after another speaker than the owner was
\* picked: a Save that went through would give the span to that speaker.
BlankCreateChangesNothingWitness ==
  /\ BlankCreate(editSpeakerState)
  /\ editSpeakerState[1].newSpeakerName = <<>>
  /\ editSpeakerState[1].newSpeakerId
       # segments[editSpeakerState[1].segmentIndex].speakerId
  /\ pending = <<>>
  /\ opsLeft > 0

\* C13 as the specification states it: a rewrite or reassignment committed
\* when the text of the segment at the descriptor's index is not the
\* descriptor's original text changes neither the segments, nor the speakers,
\* nor the persisted segments, nor the edit history.
StaleDescriptorRejected ==
  (last.op \in {"rewrite", "reassign", "sameSpeaker"}
     /\ Target(last).text # last.d[1].originalText)
    => /\ last.post = last.pre
       /\ last.postSpk = last.preSpk
       /\ last.postDb = last.preDb
       /\ last.postHist = last.preHist

\* C14 as the specification states it: after a replaceTranscriptSegments that
\* reported success the persisted segments are the elements of the list it was
\* given, and after one that reported failure they are the rows that were
\* persisted before the call.
ReplaceAllOrNothing ==
  last.op \in {"reassign", "undo"} =>
    IF last.outcome = "ok"
    THEN last.postDb = {last.post[i] : i \in 1..Len(last.post)}
    ELSE last.postDb = last.prevDb

\* C15 as the specification states it: no step (rewrite, reassignment, speaker
\* creation, undo) takes a speaker out of the speaker list.
SpeakersNeverRemoved ==
  [][\A i \in 1..Len(speakers) :
       \E j \in 1..Len(speakers') : speakers'[j].id = speakers[i].id]_vars

\* The session u has reached a limit at time t: it is at least as old as the
\* session-hours limit, or its estimated cost is at least the price limit.
LimitReached(u, limits, t) ==
  \/ t - u.sessionStartedAt >= limits.sessionHours * MsPerHour
  \/ ~RLess(u.estimatedCostUsd, RInt(limits.priceLimitUsd))

ResolverFindsFirstOccurrence ==
  last.op = "select" =>
    LET t == Trim(last.raw)
        text == last.pre[last.el].text
        at == {k \in 0..(Len(text) - Len(t)) : SubSeq(text, k + 1, k + Len(t)) = t}
    IN IF t # <<>> /\ last.el >= 1 /\ at # {}
       THEN /\ last.sel # <<>>
            /\ last.sel[1].segmentIndex = last.el
            /\ last.sel[1].segmentId = last.pre[last.el].id
            /\ last.sel[1].text = t
            /\ last.sel[1].startOffset \in at
            /\ \A k \in at : last.sel[1].startOffset <= k
            /\ last.sel[1].endOffset = last.sel[1].startOffset + Len(t)
       ELSE last.sel = <<>>

\* The user dragged over a text with a space at one end that occurs twice in
\* the segment's text; the popup shows the selection for its first occurrence.
ResolverFindsFirstOccurrenceWitness ==
  /\ last.op = "select"
  /\ last.sel # <<>>
  /\ textSelection = last.sel
  /\ last.raw # last.sel[1].text
  /\ LastIndexOf(segments[last.el].text, last.sel[1].text) > last.sel[1].startOffset

\* The times saveSpeakerChange gives to the two cuts of the span of the
\* finished reassignment l.
CutTime(l, offset) ==
  LET seg == Target(l)
      len == Len(l.d[1].originalText)
      dur == RSub(seg.endTime, seg.startTime)
  IN RAdd(seg.startTime, Rat(offset * dur.n, len * dur.d))

\* The next segment belongs to the speaker the span is given to.
NextOwnedByTarget(l) ==
  /\ l.d[1].segmentIndex < Len(l.pre)
  /\ l.pre[l.d[1].segmentIndex + 1].speakerId = l.target

\* Between the list the reassignment l was invoked on and its result, exactly
\* the segments with the identifiers of a and b differ, and they have become
\* a and b.
OnlyChanged(l, a, b) ==
  /\ Len(l.post) = Len(l.pre)
  /\ \A s \in {l.pre[k] : k \in 1..Len(l.pre)} :
       LET now_ == IF s.id = a.id THEN a ELSE IF s.id = b.id THEN b ELSE s
       IN \E k \in 1..Len(l.post) : l.post[k] = now_
  /\ \A k \in 1..Len(l.post) :
       \E j \in 1..Len(l.pre) : l.post[k].id = l.pre[j].id

\* C18: a reassignment of a suffix span (text before it, none after it) to
\* the speaker of the next segment keeps the number of segments; the next
\* segment's text becomes the span's text, a space and its previous text, its
\* startTime the time of the cut and its endTime stays; the target segment
\* keeps its identifier, speaker and startTime, with the text before the span
\* and the time of the cut as endTime; no other segment changes.
SuffixMergesForward ==
  (/\ last.op = "reassign"
   /\ PartBefore(last.d[1]) # <<>>
   /\ PartSelected(last.d[1]) # <<>>
   /\ PartAfter(last.d[1]) = <<>>
   /\ NextOwnedByTarget(last))
    => LET d == last.d[1]
           cur == Target(last)
           next == last.pre[d.segmentIndex + 1]
           beforeEndTime == CutTime(last, d.startOffset)
       IN OnlyChanged(last,
            [cur EXCEPT !.text = PartBefore(d), !.endTime = beforeEndTime,
                        !.isEdited = TRUE],
            [next EXCEPT !.text = PartSelected(d) \o <<" ">> \o next.text,
                         !.startTime = beforeEndTime, !.isEdited = TRUE])

\* The end of a segment has been given to the speaker of the next segment: two
\* segments as before, and the next one starts earlier with a longer text.
SuffixMergesForwardWitness ==
  /\ last.op = "reassign"
  /\ PartBefore(last.d[1]) # <<>>
  /\ PartAfter(last.d[1]) = <<>>
  /\ NextOwnedByTarget(last)
  /\ segments = last.post
  /\ Len(segments) = Len(last.pre)
  /\ \E k \in 1..Len(segments) :
       /\ segments[k].id = last.pre[last.d[1].segmentIndex + 1].id
       /\ Len(segments[k].text) > Len(last.pre[last.d[1].segmentIndex + 1].text)
       /\ RLess(segments[k].startTime,
                last.pre[last.d[1].segmentIndex + 1].startTime)

\* Between the list the reassignment l was invoked on and its result, the
\* segment with the identifier of gone has disappeared, the one with the
\* identifier of a has become a, and nothing else differs.
OnlyMergedAway(l, a, gone) ==
  /\ Len(l.post) = Len(l.pre) - 1
  /\ \A k \in 1..Len(l.post) : l.post[k].id # gone.id
  /\ \A s \in {l.pre[k] : k \in 1..Len(l.pre)} :
       s.id # gone.id =>
         \E k \in 1..Len(l.post) : l.post[k] = IF s.id = a.id THEN a ELSE s

\* C19: a reassignment of a prefix span (no text before it) to the speaker of
\* the previous segment makes the previous segment's text its old text, a
\* space and the span's text, and its endTime the time of the cut after the
\* span.  With text after the span the target segment keeps its identifier,
\* with that text and the time of the cut as startTime, and the number of
\* segments stays; with none the target segment is removed and the number of
\* segments drops by one.  No other segment changes.
PrefixMergesBackward ==
  (/\ last.op = "reassign"
   /\ PartBefore(last.d[1]) = <<>>
   /\ PartSelected(last.d[1]) # <<>>
   /\ PrevOwnedByTarget(last))
    => LET d == last.d[1]
           cur == Target(last)
           prev == last.pre[d.segmentIndex - 1]
           selectedEndTime == CutTime(last, d.endOffset)
           merged == [prev EXCEPT !.text = prev.text \o <<" ">> \o PartSelected(d),
                                  !.endTime = selectedEndTime, !.isEdited = TRUE]
       IN IF PartAfter(d) # <<>>
          THEN OnlyChanged(last, merged,
                 [cur EXCEPT !.text = PartAfter(d), !.startTime = selectedEndTime,
                             !.isEdited = TRUE])
          ELSE OnlyMergedAway(last, merged, cur)

\* A whole segment has been given to the speaker of the previous segment: it
\* is gone from the list on screen, which is one segment shorter.
PrefixMergesBackwardWitness ==
  /\ last.op = "reassign"
  /\ PartBefore(last.d[1]) = <<>>
  /\ PartAfter(last.d[1]) = <<>>
  /\ PrevOwnedByTarget(last)
  /\ segments = last.post
  /\ Len(segments) = Len(last.pre) - 1
  /\ \A k \in 1..Len(segments) : segments[k].id # Target(last).id

\* C20 as the specification states it: a reassignment of a span in the middle
\* of a segment puts, at the segment's position, three consecutive segments:
\* the text before the span with the original identifier and speaker, from the
\* segment's start to the first cut; the span with the target speaker, between
\* the two cuts; the text after the span with the original speaker, from the
\* second cut to the segment's end.  The identifiers of the second and third
\* differ from each other and from every other identifier in the list.
MiddleSplitsInThree ==
  (last.op = "reassign" /\ MiddleSpan(last.d[1]))
    => LET d == last.d[1]
           idx == d.segmentIndex
           cur == Target(last)
           post == last.post
           beforeEndTime == CutTime(last, d.startOffset)
           selectedEndTime == CutTime(last, d.endOffset)
           Is(seg, text, speakerId, startTime, endTime) ==
             /\ seg.text = text
             /\ seg.speakerId = speakerId
             /\ seg.startTime = startTime
             /\ seg.endTime = endTime
           FreshAt(k) == \A j \in 1..Len(post) : j # k => post[j].id # post[k].id
       IN /\ Len(post) = Len(last.pre) + 2
          /\ post[idx].id = cur.id
          /\ Is(post[idx], PartBefore(d), cur.speakerId, cur.startTime, beforeEndTime)
          /\ Is(post[idx + 1], PartSelected(d), last.target, beforeEndTime,
                selectedEndTime)
          /\ Is(post[idx + 2], PartAfter(d), cur.speakerId, selectedEndTime,
                cur.endTime)
          /\ FreshAt(idx + 1)
          /\ FreshAt(idx + 2)

\* The segment seg holds that text for that speaker over that time span.
Holds(seg, text, speakerId, startTime, endTime) ==
  /\ seg.text = text
  /\ seg.speakerId = speakerId
  /\ seg.startTime = startTime
  /\ seg.endTime = endTime

\* C21 as the specification states it: a reassignment of a suffix span (text
\* before it, none after it) whose next segment is absent or owned by another
\* speaker adds one segment, immediately after the target segment, holding the
\* span for the target speaker over [beforeEndTime, end], and leaves the target
\* segment (same identifier and speaker) with the text before the span, ending
\* at beforeEndTime = start + (startOffset / L) * (end - start).  A prefix span
\* whose previous segment is absent or owned by another speaker adds the new
\* segment, over [start, selectedEndTime], immediately before the target
\* segment, which keeps the text after the span and starts at selectedEndTime.
SplitInsertsBeside ==
  (last.op = "reassign" /\ PartSelected(last.d[1]) # <<>>)
    => LET d == last.d[1]
           cur == Target(last)
           post == last.post
           beforeEndTime == CutTime(last, d.startOffset)
           selectedEndTime == CutTime(last, d.endOffset)
       IN /\ (PartBefore(d) # <<>> /\ PartAfter(d) = <<>> /\ ~NextOwnedByTarget(last))
               => /\ Len(post) = Len(last.pre) + 1
                  /\ \E k \in 1..(Len(post) - 1) :
                       /\ post[k].id = cur.id
                       /\ Holds(post[k], PartBefore(d), cur.speakerId,
                                cur.startTime, beforeEndTime)
                       /\ Holds(post[k + 1], PartSelected(d), last.target,
                                beforeEndTime, cur.endTime)
          /\ (PartBefore(d) = <<>> /\ PartAfter(d) # <<>> /\ ~PrevOwnedByTarget(last))
               => /\ Len(post) = Len(last.pre) + 1
                  /\ \E k \in 1..(Len(post) - 1) :
                       /\ Holds(post[k], PartSelected(d), last.target,
                                cur.startTime, selectedEndTime)
                       /\ post[k + 1].id = cur.id
                       /\ Holds(post[k + 1], PartAfter(d), cur.speakerId,
                                selectedEndTime, cur.endTime)

\* The identifiers a reassignment with those Date.now() reads allocates.
FreshIds(l) ==
  {FreshId(l.t1, "new"), FreshId(l.t1, "selected"), FreshId(l.t2, "after")}

\* C22 as the specification states it: a committed reassignment creates or modifies only the target segment
\* and at most one neighbour of it (the previous or the next segment of the
\* list it was invoked on): every segment of the result that is not a segment
\* of that list as it was has isEdited = TRUE and is the target, that
\* neighbour or a newly allocated segment, and every other segment of that
\* list is in the result with the same id, text, speaker, times and isEdited.
ReassignTouchesTargetAndNeighbour ==
  (last.op = "reassign")
    => LET idx == last.d[1].segmentIndex
           pre == last.pre
           post == last.post
           Before == {pre[j] : j \in 1..Len(pre)}
           After == {post[k] : k \in 1..Len(post)}
       IN \E nb \in {idx - 1, idx, idx + 1} \cap (1..Len(pre)) :
            /\ \A j \in (1..Len(pre)) \ {idx, nb} : pre[j] \in After
            /\ \A seg \in After \ Before :
                 /\ seg.isEdited
                 /\ seg.id \in {pre[idx].id, pre[nb].id} \cup FreshIds(last)
            /\ Len(post) - Len(pre) \in {-1, 0, 1, 2}

\* C23 as the specification states it: every loaded segment having non-empty
\* text and 0 <= start < end, every segment of the list has non-empty text and
\* 0 <= start < end after any sequence of committed rewrites, reassignments
\* and undos (and so in every state).
SegmentsWellFormed ==
  \A k \in 1..Len(segments) :
    /\ segments[k].text # <<>>
    /\ ~RLess(segments[k].startTime, Rat(0, 1))
    /\ RLess(segments[k].startTime, segments[k].endTime)

\* Two persisted rows do not overlap in time: one ends no later than the other
\* starts.
Apart(r1, r2) ==
  \/ ~RLess(r2.startTime, r1.endTime)
  \/ ~RLess(r1.startTime, r2.endTime)

\* C24: the loaded sequence being sorted and non-overlapping, no two persisted
\* segments overlap in time after any sequence of committed rewrites,
\* reassignments and undos (and so in every state).
PersistedNeverOverlap ==
  \A r1 \in dbSegments : \A r2 \in dbSegments \ {r1} : Apart(r1, r2)

\* C25: a reassignment of a whole-segment span whose previous segment is
\* absent or owned by another speaker than the target one, and whose next
\* segment is owned by the target speaker, merges nothing: the number of
\* segments stays, the next segment is in the result exactly as it was, and
\* the target segment differs only by its speaker and its isEdited flag.
WholeSpanNeverMergesForward ==
  (/\ last.op = "reassign"
   /\ WholeSpan(last.d[1])
   /\ ~PrevOwnedByTarget(last)
   /\ NextOwnedByTarget(last))
    => LET idx == last.d[1].segmentIndex
           cur == last.pre[idx]
           next == last.pre[idx + 1]
       IN /\ Len(last.post) = Len(last.pre)
          /\ \E k \in 1..Len(last.post) : last.post[k] = next
          /\ \E k \in 1..Len(last.post) :
               last.post[k] = [cur EXCEPT !.speakerId = last.target,
                                          !.isEdited = TRUE]
          /\ \A k \in 1..Len(last.post) :
               last.post[k].text \in {last.pre[j].text : j \in 1..Len(last.pre)}

\* The first segment has been given whole to the speaker of the second: both
\* are on screen, the second as it was, the first with the second's speaker.
WholeSpanNeverMergesForwardWitness ==
  /\ last.op = "reassign"
  /\ WholeSpan(last.d[1])
  /\ last.d[1].segmentIndex = 1
  /\ NextOwnedByTarget(last)
  /\ segments = last.post
  /\ segments[2] = last.pre[2]
  /\ segments[1].id = last.pre[1].id
  /\ segments[1].text = last.pre[1].text
  /\ segments[1].speakerId = segments[2].speakerId

\* C26 as the specification states it: the loaded segments having pairwise
\* distinct identifiers, no two segments of the list have the same identifier
\* after any sequence of reassignments, rewrites and undos (and so in every
\* state).
IdentifiersDistinct ==
  \A j \in 1..Len(segments) : \A k \in 1..Len(segments) :
    segments[j].id = segments[k].id => j = k

\* C27: it being so when the recording is loaded, the speakerId of every
\* segment of the list on screen is the identifier of a speaker of the speaker
\* list on screen, after any sequence of rewrites, reassignments (to existing
\* or newly created speakers), sidebar speaker additions and undos (and so in
\* every state).
SegmentSpeakersKnown ==
  \A k \in 1..Len(segments) :
    \E i \in 1..Len(speakers) : speakers[i].id = segments[k].speakerId

\* C28: an undo leaves the stored speakers as they are, from the click to the
\* end of its write; so a speaker that was on screen when Undo was clicked and
\* is not in the restored speaker list (the undone reassignment created it) is
\* still in storage when the undo has finished.
UndoKeepsStoredSpeakers ==
  /\ [](last.op = "undo" =>
          \A i \in 1..Len(last.preSpk) : last.preSpk[i] \in dbSpeakers)
  /\ [][(last'.op = "undo" /\ last' # last) => dbSpeakers' = dbSpeakers]_vars

\* The reassignment that created a speaker has been undone: the speaker is
\* not on screen any more and is still stored.
UndoKeepsStoredSpeakersWitness ==
  /\ last.op = "undo"
  /\ last.outcome = "ok"
  /\ speakers = last.postSpk
  /\ \E i \in 1..Len(last.preSpk) :
       /\ \A j \in 1..Len(speakers) : speakers[j].id # last.preSpk[i].id
       /\ last.preSpk[i] \in dbSpeakers

\* The history has only lost entries since the clicked value `was`.
ShrunkFrom(hist, was) ==
  Len(hist) <= Len(was) /\ \A i \in 1..Len(hist) : hist[i] = was[i]

\* C29 as the specification states it: when an undo finishes and since its
\* click the history has only lost entries (other undos finished meanwhile),
\* the entry it takes off the history is the one whose segments and speakers
\* it puts on screen; no entry leaves the history unrestored.
UndoRestoresWhatItRemoves ==
  [][(/\ last'.op = "undo"
      /\ last' # last
      /\ editHistory # <<>>
      /\ ShrunkFrom(editHistory, last'.preHist))
     => /\ editHistory' = DropLast(editHistory)
        /\ segments' = LastEntry(editHistory).segments
        /\ speakers' = LastEntry(editHistory).speakers]_vars

\* C30 as the specification states it: when a rewrite, a reassignment or an
\* undo has finished and its storage write succeeded, the stored rows are
\* the segments on screen, one row for each segment.
PersistedEqualsInMemory ==
  (last.op \in {"rewrite", "reassign", "undo"} /\ last.outcome = "ok")
    => /\ last.postDb = {last.post[i] : i \in 1..Len(last.post)}
       /\ Cardinality(last.postDb) = Len(last.post)

\* C10 as the specification states it: no two of rewrite, reassignment and undo
\* are in progress at once; while one is suspended at its storage write no
\* other starts.
OneOperationAtATime == Len(pending) <= 1

====
